---- MODULE Spec2Model ----
(***************************************************************************)
(* Model of gormschema/index_definition.go: the declarative-index to GORM  *)
(* tag synthesizer (AutoMigrateModel, ExtractRequiredExtensions and their  *)
(* internals).  Go strings are TLA+ strings; TLC evaluates Len, \o, SubSeq *)
(* on them, and a character is a string of length one.                     *)
(***************************************************************************)
EXTENDS Integers, Sequences, FiniteSets, TLC

VARIABLES
  pc,        \* "ready" before the call under study, "done" after it
  model,     \* argument of AutoMigrateModel / ExtractRequiredExtensions
  sel,       \* argument of fieldNameFromSelectorValue
  orig,      \* first argument of mergeIndexIntoGormTag (a struct tag)
  toAdd,     \* second argument of mergeIndexIntoGormTag
  ret,       \* what the call returned
  engine,    \* calls received by the migration engine (gorm.DB), in order
  selCalls,  \* number of selector invocations made by the call
  iter,      \* per call made, the order in which Go iterated over its maps
  str,       \* argument of toSnakeCase
  probes     \* the probe instances reflect.New has allocated so far, in order

vars ==
  <<pc, model, sel, orig, toAdd, ret, engine, selCalls, iter, str, probes>>

(***************************************************************************)
(* Bounds of the model.                                                    *)
(***************************************************************************)
MaxDefs == 2
MaxCols == 3
MaxExts == 2
MaxPieces == 2
MaxAdd == 1

(***************************************************************************)
(* Package strings: the few functions of Go's strings package the source   *)
(* uses, on TLA+ strings.                                                  *)
(***************************************************************************)
Char(s, i) == SubSeq(s, i, i)

Drop(s, n) == SubSeq(s, n + 1, Len(s))

Take(s, n) == SubSeq(s, 1, n)

\* unicode.IsSpace, which strings.TrimSpace trims by: the characters of
\* Unicode White_Space.  Tab, line feed, vertical tab (U+000B), form
\* feed, carriage return, space, next line (U+0085), no-break space
\* (U+00A0) and Ogham space mark (U+1680) are the ones a string of this
\* module can hold; U+2000-U+200A, U+2028, U+2029, U+202F, U+205F and
\* U+3000 are white space too, and no string of the module holds one.
IsSpace(c) ==
  c \in {"\t", "\n", "", "\f", "\r", " ", "", " ", " "}

RECURSIVE TrimLeft(_)
TrimLeft(s) ==
  IF Len(s) > 0 /\ IsSpace(Char(s, 1)) THEN TrimLeft(Drop(s, 1)) ELSE s

RECURSIVE TrimRight(_)
TrimRight(s) ==
  IF Len(s) > 0 /\ IsSpace(Char(s, Len(s))) THEN TrimRight(Take(s, Len(s) - 1)) ELSE s

TrimSpace(s) == TrimRight(TrimLeft(s))

HasPrefix(s, p) == Len(s) >= Len(p) /\ Take(s, Len(p)) = p

\* strings.Index: 1-based position of the first occurrence of the
\* one-character string c at or after position from, 0 when there is none.
RECURSIVE IndexFrom(_, _, _)
IndexFrom(s, c, from) ==
  IF from > Len(s) THEN 0
  ELSE IF Char(s, from) = c THEN from
  ELSE IndexFrom(s, c, from + 1)

\* strings.Split(s, sep) for a one-character separator.
RECURSIVE Split(_, _)
Split(s, sep) ==
  LET k == IndexFrom(s, sep, 1) IN
  IF k = 0 THEN <<s>>
  ELSE <<Take(s, k - 1)>> \o Split(Drop(s, k), sep)

RECURSIVE Join(_, _)
Join(parts, sep) ==
  IF Len(parts) = 0 THEN ""
  ELSE IF Len(parts) = 1 THEN parts[1]
  ELSE parts[1] \o sep \o Join(Tail(parts), sep)

Digits == <<"0", "1", "2", "3", "4", "5", "6", "7", "8", "9">>

\* fmt.Sprintf("%d", n) for n >= 0.
RECURSIVE Itoa(_)
Itoa(n) ==
  IF n < 10 THEN Digits[n + 1] ELSE Itoa(n \div 10) \o Digits[(n % 10) + 1]

\* fmt.Sprintf("%q", s) for a string without characters to escape.
Quote(s) == "\"" \o s \o "\""

UpperLetters ==
  <<"A", "B", "C", "D", "E", "F", "G", "H", "I", "J", "K", "L", "M",
    "N", "O", "P", "Q", "R", "S", "T", "U", "V", "W", "X", "Y", "Z">>

LowerLetters ==
  <<"a", "b", "c", "d", "e", "f", "g", "h", "i", "j", "k", "l", "m",
    "n", "o", "p", "q", "r", "s", "t", "u", "v", "w", "x", "y", "z">>

Range(f) == {f[i] : i \in DOMAIN f}

UpperSet == Range(UpperLetters)

LowerSet == Range(LowerLetters)

DigitSet == Range(Digits)

IsUpper(c) == c \in UpperSet

IsLower(c) == c \in LowerSet

IsDigit(c) == c \in DigitSet

\* r + 32 for each upper-case ASCII letter r.
LowerOf == [c \in UpperSet |-> LowerLetters[CHOOSE i \in 1..26 : UpperLetters[i] = c]]

Lower(c) == LowerOf[c]

(***************************************************************************)
(* toSnakeCase                                                             *)
(***************************************************************************)

\* toSnakeCase looking at the previous character only.
RECURSIVE SnakeFromPrevOnly(_, _)
SnakeFromPrevOnly(runes, i) ==
  IF i > Len(runes) THEN ""
  ELSE
    LET r == Char(runes, i)
        prevLower == IsLower(Char(runes, i - 1))
        out == IF IsUpper(r)
               THEN (IF i > 1 /\ prevLower THEN "_" ELSE "") \o Lower(r)
               ELSE r
    IN out \o SnakeFromPrevOnly(runes, i + 1)

toSnakeCasePrevOnly(s) == IF s = "" THEN s ELSE SnakeFromPrevOnly(s, 1)

RECURSIVE SnakeFrom(_, _)
SnakeFrom(runes, i) ==
  IF i > Len(runes) THEN ""
  ELSE
    LET r == Char(runes, i)
        prevLower == IsLower(Char(runes, i - 1))
        nextLower == i + 1 <= Len(runes) /\ IsLower(Char(runes, i + 1))
        out == IF IsUpper(r)
               THEN (IF i > 1 /\ (prevLower \/ nextLower) THEN "_" ELSE "") \o Lower(r)
               ELSE r
    IN out \o SnakeFrom(runes, i + 1)

toSnakeCase(s) == IF s = "" THEN s ELSE SnakeFrom(s, 1)

(***************************************************************************)
(* Values seen through package reflect.                                    *)
(*                                                                         *)
(* A struct type is [Name, Fields]; a field (reflect.StructField) is       *)
(* [Name, PkgPath, Type, Tag, Anonymous, Offset, Size, Sub]: PkgPath is "" *)
(* for an exported field, Offset and Size place the field in the struct's  *)
(* memory, and Sub lists the offsets, inside the field, of the sub-fields  *)
(* of a struct-typed (nested or embedded) field.  Every field of a model   *)
(* holds a column or a struct of columns and occupies at least one byte.   *)
(*                                                                         *)
(* A selector (Col.Sel) is [Kind, NumIn, In0Ptr, NumOut, T, OutIface,      *)
(* Res, Target]: T is the struct type its argument points to, and calling  *)
(* it yields Res, one of "nilInterface", "value", "nilPointer", "pointer". *)
(* A pointer result points at Target:                                      *)
(*   [kind |-> "field", f |-> k]          &m.F, F the k-th field of T      *)
(*   [kind |-> "sub", f |-> k, s |-> n]   &m.F.S, S the n-th sub-field     *)
(*   [kind |-> "self"]                    m, the probe itself              *)
(*   [kind |-> "other", addr |-> a]       a variable outside the probe     *)
(***************************************************************************)

\* Address reflect.New returns for the zero-valued probe instance.
ProbeAddr == 4096

StructSize(t) ==
  IF Len(t.Fields) = 0 THEN 0
  ELSE t.Fields[Len(t.Fields)].Offset + t.Fields[Len(t.Fields)].Size

\* fv.Addr().Pointer() of the i-th field of the probe.
FieldAddr(t, i) == ProbeAddr + t.Fields[i].Offset

\* res.Pointer(): the raw address the selector returned.
Pointer(s) ==
  CASE s.Target.kind = "field" -> FieldAddr(s.T, s.Target.f)
    [] s.Target.kind = "sub" ->
         FieldAddr(s.T, s.Target.f) + s.T.Fields[s.Target.f].Sub[s.Target.s]
    [] s.Target.kind = "self" -> ProbeAddr
    [] OTHER -> s.Target.addr

ErrNotFunc == "Sel is not a func"
ErrShape == "Sel must be func(*T) any"
ErrNilInterface == "Sel returned a nil interface"
ErrNotPointer == "Sel must return a *field (pointer)"
ErrNotTopLevel == "Sel didn't point to a top-level exported field on "

\* FirstFieldAt accepting any address at or after the start of a field.
RECURSIVE FirstFieldAtOrAfter(_, _, _)
FirstFieldAtOrAfter(t, retPtr, i) ==
  IF i > Len(t.Fields) THEN 0
  ELSE IF t.Fields[i].PkgPath # "" THEN FirstFieldAtOrAfter(t, retPtr, i + 1)
  ELSE IF FieldAddr(t, i) <= retPtr THEN i
  ELSE FirstFieldAtOrAfter(t, retPtr, i + 1)

\* The loop of fieldNameFromSelectorValue over the fields of the probe:
\* index of the first exported field whose address is retPtr, 0 if none.
RECURSIVE FirstFieldAt(_, _, _)
FirstFieldAt(t, retPtr, i) ==
  IF i > Len(t.Fields) THEN 0
  ELSE IF t.Fields[i].PkgPath # "" THEN FirstFieldAt(t, retPtr, i + 1)
  ELSE IF FieldAddr(t, i) = retPtr THEN i
  ELSE FirstFieldAt(t, retPtr, i + 1)

\* reflect.New(T): a zero-valued instance that is none of those allocated
\* before (heap lists them); instances are numbered in allocation order.
\* Addresses are taken relative to the probe of the resolution at hand,
\* which is seen at ProbeAddr.
New(heap) == Len(heap) + 1

\* Lines 282-288: the error of the shape check, "" when it passes.
shapeError(s) ==
  IF s.Kind # "func" THEN ErrNotFunc
  ELSE IF s.NumIn # 1 \/ ~s.In0Ptr \/ s.NumOut # 1 THEN ErrShape
  ELSE ""

\* resultError that lets a nil pointer through.
resultErrorNilPointerPasses(s) ==
  IF s.OutIface /\ s.Res = "nilInterface" THEN ErrNilInterface
  ELSE IF s.Res = "value" THEN ErrNotPointer
  ELSE ""

\* Lines 297-308: the error of the checks on what the selector returned,
\* "" when it is a non-nil pointer.
resultError(s) ==
  IF s.OutIface /\ s.Res = "nilInterface" THEN ErrNilInterface
  ELSE IF s.Res # "pointer" THEN ErrNotPointer
  ELSE ""

\* Lines 309-324, for the instance ptrToT the selector was invoked on.
fieldAtPointer(s, ptrToT) ==
  LET k == FirstFieldAt(s.T, Pointer(s), 1) IN
  IF k # 0
  THEN [name |-> s.T.Fields[k].Name, err |-> "", calls |-> 1, probes |-> <<ptrToT>>]
  ELSE [name |-> "", err |-> ErrNotTopLevel \o s.T.Name, calls |-> 1,
        probes |-> <<ptrToT>>]

\* fieldNameFromSelectorValue that probes every selector with the first
\* instance allocated.
fieldNameFromSelectorValueSharedProbe(s, heap) ==
  IF shapeError(s) # ""
  THEN [name |-> "", err |-> shapeError(s), calls |-> 0, probes |-> <<>>]
  ELSE IF resultError(s) # ""
  THEN [name |-> "", err |-> resultError(s), calls |-> 1, probes |-> <<1>>]
  ELSE fieldAtPointer(s, 1)

\* fieldNameFromSelectorValue: [name, err, calls, probes], err = "" for a
\* nil error, calls = how many times the selector was invoked, probes =
\* the instances it was invoked on, in order; heap lists the instances
\* allocated before the call.
fieldNameFromSelectorValue(s, heap) ==
  IF shapeError(s) # ""
  THEN [name |-> "", err |-> shapeError(s), calls |-> 0, probes |-> <<>>]
  ELSE IF resultError(s) # ""
  THEN [name |-> "", err |-> resultError(s), calls |-> 1, probes |-> <<New(heap)>>]
  ELSE fieldAtPointer(s, New(heap))

(***************************************************************************)
(* collectIndexTagsFromIndexesValue                                        *)
(*                                                                         *)
(* An index declaration is [Kind, LooksLike, HasType, Name, Columns,       *)
(* ColsIsSlice, Unique, Where, Type, HasExtensions, Extensions] and a      *)
(* column is [Kind, HasSel, Sel, Sort, Nulls, HasOpClass, OpClass]; Kind   *)
(* is "struct" for a value that is (or points to) a struct.                *)
(***************************************************************************)

\* sortParts that emits the nulls ordering of a column without a sort.
sortPartsNullsAlone(col) ==
  LET s == TrimSpace(col.Sort)
      n == TrimSpace(col.Nulls)
  IN IF s # "" \/ n # "" THEN <<"sort:" \o (IF n # "" THEN s \o " nulls " \o n ELSE s)>>
     ELSE <<>>

\* The sort marker of a column (lines 250-256), as a list of 0 or 1 parts.
sortParts(col) ==
  LET s == TrimSpace(col.Sort)
      n == TrimSpace(col.Nulls)
  IN IF s # "" THEN <<"sort:" \o (IF n # "" THEN s \o " nulls " \o n ELSE s)>>
     ELSE <<>>

\* firstColumnParts without the test j == 0 on `unique`.
firstColumnPartsEveryColumn(j, unique, where, indexType) ==
  (IF unique THEN <<"unique">> ELSE <<>>)
  \o (IF j = 0 /\ where # "" THEN <<"where:" \o where>> ELSE <<>>)
  \o (IF j = 0 /\ indexType # "" THEN <<"type:" \o indexType>> ELSE <<>>)

\* The index-level markers, recorded on the first column only (lines 257-265).
firstColumnParts(j, unique, where, indexType) ==
  (IF j = 0 /\ unique THEN <<"unique">> ELSE <<>>)
  \o (IF j = 0 /\ where # "" THEN <<"where:" \o where>> ELSE <<>>)
  \o (IF j = 0 /\ indexType # "" THEN <<"type:" \o indexType>> ELSE <<>>)

\* opClassParts with the field name left as declared.
opClassPartsRawName(col, fname) ==
  IF col.HasOpClass /\ TrimSpace(col.OpClass) # ""
  THEN <<"expression:" \o fname \o " " \o TrimSpace(col.OpClass)>>
  ELSE <<>>

\* The operator-class marker of a column (lines 266-273).
opClassParts(col, fname) ==
  IF col.HasOpClass /\ TrimSpace(col.OpClass) # ""
  THEN <<"expression:" \o toSnakeCase(fname) \o " " \o TrimSpace(col.OpClass)>>
  ELSE <<>>

\* columnParts with the zero-based position as priority.
columnPartsZeroBased(name, unique, where, indexType, j, col, fname) ==
  <<"index:" \o name, "priority:" \o Itoa(j)>>
  \o sortParts(col)
  \o firstColumnParts(j, unique, where, indexType)
  \o opClassParts(col, fname)

\* The local variable parts of the column loop when it reaches line 275,
\* for the column at zero-based position j resolved to field fname.
columnParts(name, unique, where, indexType, j, col, fname) ==
  <<"index:" \o name, "priority:" \o Itoa(j + 1)>>
  \o sortParts(col)
  \o firstColumnParts(j, unique, where, indexType)
  \o opClassParts(col, fname)

\* AppendTag that keeps only the last fragment of a field.
AppendTagOverwrite(tags, fname, frag) ==
  IF fname \in DOMAIN tags THEN [tags EXCEPT ![fname] = <<frag>>]
  ELSE tags @@ (fname :> <<frag>>)

\* fieldToIndexTags[fname] = append(fieldToIndexTags[fname], frag)
AppendTag(tags, fname, frag) ==
  IF fname \in DOMAIN tags THEN [tags EXCEPT ![fname] = Append(@, frag)]
  ELSE tags @@ (fname :> <<frag>>)

CollectFail(acc, msg) ==
  [tags |-> <<>>, err |-> msg, calls |-> acc.calls, log |-> acc.log,
   probes |-> acc.probes]

\* The inner loop (lines 224-276) from zero-based column j of declaration
\* i on.  acc.log records, per column appended, its declaration, position,
\* field and parts.
RECURSIVE CollectCols(_, _, _, _)
CollectCols(def, i, j, acc) ==
  IF j >= Len(def.Columns) THEN acc
  ELSE
    LET col == def.Columns[j + 1]
        where == TrimSpace(def.Where)
        indexType == IF def.HasType THEN TrimSpace(def.Type) ELSE ""
        at == "ndex " \o Quote(def.Name) \o " column " \o Itoa(j + 1)
    IN
    IF col.Kind # "struct" THEN CollectFail(acc, "I" \o at \o ": not a struct")
    ELSE IF ~col.HasSel THEN CollectFail(acc, "I" \o at \o ": missing Sel")
    ELSE
      LET r == fieldNameFromSelectorValue(col.Sel, acc.probes)
          called == [acc EXCEPT !.calls = @ + r.calls, !.probes = @ \o r.probes]
      IN
      IF r.err # "" THEN CollectFail(called, "i" \o at \o ": " \o r.err)
      ELSE
        LET parts == columnParts(def.Name, def.Unique, where, indexType, j, col, r.name)
            frag == Join(parts, ",")
        IN CollectCols(def, i, j + 1,
             [called EXCEPT
                !.tags = AppendTag(@, r.name, frag),
                !.log = Append(@, [index |-> i, column |-> j,
                                   field |-> r.name, parts |-> parts])])

\* CollectDefs that goes on to the next declaration after an error.
RECURSIVE CollectDefsKeepGoing(_, _, _)
CollectDefsKeepGoing(defs, i, acc) ==
  IF i >= Len(defs) THEN acc
  ELSE
    LET def == defs[i + 1] IN
    IF def.Kind # "struct"
    THEN CollectFail(acc, "Indexes()[" \o Itoa(i) \o "] is not a struct")
    ELSE IF ~def.LooksLike
    THEN CollectFail(acc, "Indexes()[" \o Itoa(i) \o "] doesn't look like IndexDefinition")
    ELSE IF ~def.ColsIsSlice
    THEN CollectFail(acc, "Index " \o Quote(def.Name) \o ": Columns is not a slice")
    ELSE CollectDefsKeepGoing(defs, i + 1, CollectCols(def, i, 0, acc))

\* The outer loop (lines 194-277) from zero-based declaration i on.
RECURSIVE CollectDefs(_, _, _)
CollectDefs(defs, i, acc) ==
  IF i >= Len(defs) THEN acc
  ELSE
    LET def == defs[i + 1] IN
    IF def.Kind # "struct"
    THEN CollectFail(acc, "Indexes()[" \o Itoa(i) \o "] is not a struct")
    ELSE IF ~def.LooksLike
    THEN CollectFail(acc, "Indexes()[" \o Itoa(i) \o "] doesn't look like IndexDefinition")
    ELSE IF ~def.ColsIsSlice
    THEN CollectFail(acc, "Index " \o Quote(def.Name) \o ": Columns is not a slice")
    ELSE
      LET after == CollectCols(def, i, 0, acc) IN
      IF after.err # "" THEN after ELSE CollectDefs(defs, i + 1, after)

\* [tags, err, calls, log, probes]: tags is the returned map (empty on
\* error), err the returned error ("" for nil), probes the instances the
\* selectors were invoked on.
collectIndexTagsFromIndexesValue(baseStruct, defsSlice) ==
  CollectDefs(defsSlice, 0,
    [tags |-> <<>>, err |-> "", calls |-> 0, log |-> <<>>, probes |-> <<>>])

(***************************************************************************)
(* Struct tags: parseStructTag, buildStructTag, stripIndexPiecesFromGormTag*)
(* and mergeIndexIntoGormTag.  A parsed tag is a function from keys to     *)
(* values (Go's map[string]string).                                        *)
(***************************************************************************)

\* The printable ASCII characters in code order: 32 (space) to 95 (_), and
\* 97 (a) to 126 (~); a struct tag holds no back quote (96).
AsciiLow ==
  " !\"#$%&'()*+,-./0123456789:;<=>?@ABCDEFGHIJKLMNOPQRSTUVWXYZ[\\]^_"

AsciiHigh == "abcdefghijklmnopqrstuvwxyz{|}~"

\* The byte value of each printable ASCII character.
OrdOf ==
  [c \in {Char(AsciiLow, i) : i \in 1..Len(AsciiLow)}
         \cup {Char(AsciiHigh, i) : i \in 1..Len(AsciiHigh)} |->
     IF IndexFrom(AsciiLow, c, 1) # 0 THEN 31 + IndexFrom(AsciiLow, c, 1)
     ELSE 96 + IndexFrom(AsciiHigh, c, 1)]

Ord(c) == OrdOf[c]

\* a < b for Go strings (byte-wise lexicographic order).
RECURSIVE StrLess(_, _)
StrLess(a, b) ==
  IF Len(b) = 0 THEN FALSE
  ELSE IF Len(a) = 0 THEN TRUE
  ELSE IF Char(a, 1) = Char(b, 1) THEN StrLess(Drop(a, 1), Drop(b, 1))
  ELSE Ord(Char(a, 1)) < Ord(Char(b, 1))

\* x put in front of the first element of the sorted list that is
\* greater than it.
RECURSIVE InsertSorted(_, _)
InsertSorted(sorted, x) ==
  IF Len(sorted) = 0 THEN <<x>>
  ELSE IF StrLess(x, Head(sorted)) THEN <<x>> \o sorted
  ELSE <<Head(sorted)>> \o InsertSorted(Tail(sorted), x)

\* sort.Strings: the list in increasing byte order.
RECURSIVE SortStrings(_)
SortStrings(list) ==
  IF Len(list) = 0 THEN <<>>
  ELSE InsertSorted(SortStrings(Tail(list)), Head(list))

\* The regular expression class \w.
IsWord(c) == IsUpper(c) \/ IsLower(c) \/ IsDigit(c) \/ c = "_"

\* First position at or after p that holds no \w character.
RECURSIVE WordEnd(_, _)
WordEnd(s, p) ==
  IF p > Len(s) \/ ~IsWord(Char(s, p)) THEN p ELSE WordEnd(s, p + 1)

\* tagKV.FindAllStringSubmatch(s, -1) folded into the map: the leftmost
\* non-overlapping matches of (\w+):"([^"]*)" from position p on.
RECURSIVE ParseFrom(_, _, _)
ParseFrom(s, p, out) ==
  IF p > Len(s) THEN out
  ELSE IF ~IsWord(Char(s, p)) THEN ParseFrom(s, p + 1, out)
  ELSE
    LET q == WordEnd(s, p)
        r == IndexFrom(s, "\"", q + 2)
    IN IF q + 1 <= Len(s) /\ Char(s, q) = ":" /\ Char(s, q + 1) = "\"" /\ r # 0
       THEN ParseFrom(s, r + 1,
                      (SubSeq(s, p, q - 1) :> SubSeq(s, q + 2, r - 1)) @@ out)
       ELSE ParseFrom(s, p + 1, out)

parseStructTag(tag) == ParseFrom(tag, 1, <<>>)

\* `for k, v := range kv`: Go visits the keys of a map in an order of its
\* own choosing; order lists every possible key in the order of this visit.
rangeKeys(kv, order) == SelectSeq(order, LAMBDA k : k \in DOMAIN kv)

\* The local variable parts of buildStructTag after its loop.
tagParts(kv, order) ==
  [n \in DOMAIN rangeKeys(kv, order) |->
     rangeKeys(kv, order)[n] \o ":" \o Quote(kv[rangeKeys(kv, order)[n]])]

\* buildStructTag without sort.Strings.
buildStructTagUnsorted(kv, order) ==
  IF DOMAIN kv = {} THEN ""
  ELSE Join(tagParts(kv, order), " ")

buildStructTag(kv, order) ==
  IF DOMAIN kv = {} THEN ""
  ELSE Join(SortStrings(tagParts(kv, order)), " ")

\* The loop of stripIndexPiecesFromGormTag: the trimmed pieces kept.
RECURSIVE KeepPieces(_)
KeepPieces(parts) ==
  IF Len(parts) = 0 THEN <<>>
  ELSE
    LET pp == TrimSpace(Head(parts)) IN
    IF HasPrefix(pp, "index:") \/ HasPrefix(pp, "uniqueIndex:")
    THEN KeepPieces(Tail(parts))
    ELSE <<pp>> \o KeepPieces(Tail(parts))

stripIndexPiecesFromGormTag(gormTag) ==
  IF gormTag = "" THEN ""
  ELSE Join(KeepPieces(Split(gormTag, ";")), ";")

\* kv["gorm"]: the value of a missing key is the empty string.
Lookup(kv, k) == IF k \in DOMAIN kv THEN kv[k] ELSE ""

\* delete(kv, k)
Delete(kv, k) == [x \in DOMAIN kv \ {k} |-> kv[x]]

mergeIndexIntoGormTag(origTag, add, order) ==
  LET kv == parseStructTag(origTag)
      stripped == stripIndexPiecesFromGormTag(Lookup(kv, "gorm"))
      gormVal == IF Len(add) > 0
                 THEN (IF stripped = "" THEN Join(add, ";")
                       ELSE stripped \o ";" \o Join(add, ";"))
                 ELSE stripped
  IN IF gormVal = "" THEN buildStructTag(Delete(kv, "gorm"), order)
     ELSE buildStructTag(("gorm" :> gormVal) @@ kv, order)

(***************************************************************************)
(* AutoMigrateModel                                                        *)
(*                                                                         *)
(* A model argument is [IsNil, PtrDepth, Kind, T, Indexes, Tabler,         *)
(* TableName]: PtrDepth counts the pointers around the base type, Kind is  *)
(* the kind of the base type, T the base struct type.  Indexes describes   *)
(* the Indexes method, [Present, NumIn, NumOut, OutKind, Defs]; Tabler     *)
(* tells whether TableName is declared, and on which receiver ("none",     *)
(* "value", "pointer").                                                    *)
(***************************************************************************)

\* recv.MethodByName(name).IsValid(): recv is the model when it is a
\* pointer, a pointer to a copy of it otherwise; only *T and T carry
\* methods.
MethodByName(m, present) == present /\ m.PtrDepth <= 1

\* Passthrough that migrates twice.
PassthroughTwice(m, engineErr) ==
  [err |-> engineErr, calls |-> 0, log |-> <<>>, tags |-> <<>>,
   probes |-> <<>>, indexes |-> 0,
   engine |-> <<[table |-> <<>>, projection |-> FALSE, value |-> m,
                 answer |-> engineErr],
                [table |-> <<>>, projection |-> FALSE, value |-> m,
                 answer |-> engineErr]>>]

\* db.AutoMigrate(model): the engine receives the caller's model.
Passthrough(m, engineErr) ==
  [err |-> engineErr, calls |-> 0, log |-> <<>>, tags |-> <<>>,
   probes |-> <<>>, indexes |-> 0,
   engine |-> <<[table |-> <<>>, projection |-> FALSE, value |-> m,
                 answer |-> engineErr]>>]

\* Failure after a call of the migration engine.
FailureAfterMigrate(msg, calls, used) ==
  [err |-> msg, calls |-> calls, log |-> <<>>, tags |-> <<>>, probes |-> used,
   indexes |-> 0,
   engine |-> <<[table |-> <<>>, projection |-> FALSE, value |-> <<>>,
                 answer |-> ""]>>]

\* return fmt.Errorf(...) or return err: db is not touched.
Failure(msg, calls, used) ==
  [err |-> msg, calls |-> calls, log |-> <<>>, tags |-> <<>>, probes |-> used,
   indexes |-> 0, engine |-> <<>>]

\* reflect.TypeOf(model): the base type behind depth pointers.
RECURSIVE TypeOf(_, _)
TypeOf(depth, kind) ==
  IF depth = 0 THEN [kind |-> kind]
  ELSE [kind |-> "ptr", elem |-> TypeOf(depth - 1, kind)]

RECURSIVE indirectType(_)
indirectType(t) == IF t.kind = "ptr" THEN indirectType(t.elem) ELSE t

\* ProjectFields without the test on PkgPath.
RECURSIVE ProjectFieldsKeepUnexported(_, _, _, _)
ProjectFieldsKeepUnexported(base, tags, i, order) ==
  IF i > Len(base.Fields) THEN <<>>
  ELSE
    LET sf == base.Fields[i] IN
    <<[Name |-> sf.Name, Type |-> sf.Type,
       Tag |-> mergeIndexIntoGormTag(sf.Tag,
                 IF sf.Name \in DOMAIN tags THEN tags[sf.Name] ELSE <<>>, order),
       Anonymous |-> sf.Anonymous]>>
    \o ProjectFieldsKeepUnexported(base, tags, i + 1, order)

\* ProjectFields that leaves the tag of a field no declaration names as
\* it is.
RECURSIVE ProjectFieldsReferencedOnly(_, _, _, _)
ProjectFieldsReferencedOnly(base, tags, i, order) ==
  IF i > Len(base.Fields) THEN <<>>
  ELSE
    LET sf == base.Fields[i] IN
    IF sf.PkgPath # "" THEN ProjectFieldsReferencedOnly(base, tags, i + 1, order)
    ELSE <<[Name |-> sf.Name, Type |-> sf.Type,
            Tag |-> IF sf.Name \in DOMAIN tags
                    THEN mergeIndexIntoGormTag(sf.Tag, tags[sf.Name], order)
                    ELSE sf.Tag,
            Anonymous |-> sf.Anonymous]>>
         \o ProjectFieldsReferencedOnly(base, tags, i + 1, order)

\* Lines 92-107: the fields of the cloned struct type.
RECURSIVE ProjectFields(_, _, _, _)
ProjectFields(base, tags, i, order) ==
  IF i > Len(base.Fields) THEN <<>>
  ELSE
    LET sf == base.Fields[i] IN
    IF sf.PkgPath # "" THEN ProjectFields(base, tags, i + 1, order)
    ELSE <<[Name |-> sf.Name, Type |-> sf.Type,
            Tag |-> mergeIndexIntoGormTag(sf.Tag,
                      IF sf.Name \in DOMAIN tags THEN tags[sf.Name] ELSE <<>>, order),
            Anonymous |-> sf.Anonymous]>>
         \o ProjectFields(base, tags, i + 1, order)

\* x.(schema.Tabler) succeeds: x, a T behind depth pointers, has TableName
\* in its method set.  T carries the methods declared on a value receiver,
\* *T those declared on either receiver, **T and beyond none.
ImplementsTabler(depth, tabler) ==
  \/ depth = 0 /\ tabler = "value"
  \/ depth = 1 /\ tabler # "none"

\* TableOf without the second assertion, on a pointer to the model.
TableOfModelOnly(m) ==
  IF ImplementsTabler(m.PtrDepth, m.Tabler) THEN <<m.TableName>>
  ELSE <<>>

\* Lines 112-127: the table the projection is migrated under; <<>> stands
\* for a plain db.AutoMigrate, <<name>> for db.Table(name).AutoMigrate.
TableOf(m) ==
  IF ImplementsTabler(m.PtrDepth, m.Tabler) THEN <<m.TableName>>
  ELSE IF ImplementsTabler(IF m.PtrDepth >= 1 THEN m.PtrDepth ELSE 1, m.Tabler)
  THEN <<m.TableName>>
  ELSE <<>>

\* [err, calls, log, tags, probes, indexes, engine]: err is the returned
\* error ("" for nil), calls the selector invocations made, log the columns
\* assembled, tags the local variable fieldToIndexTags (empty when not
\* built), probes the instances the selectors were invoked on, indexes the
\* number of calls of the model's Indexes(), engine
\* the calls made on db in order, engineErr what the migration engine
\* answers, order the order in which the maps of the call are iterated.
AutoMigrateModel(m, engineErr, order) ==
  IF m.IsNil THEN Failure("nil model", 0, <<>>)
  ELSE IF indirectType(TypeOf(m.PtrDepth, m.Kind)).kind # "struct"
  THEN Failure("model must be a struct or *struct, got "
                 \o indirectType(TypeOf(m.PtrDepth, m.Kind)).kind, 0, <<>>)
  ELSE IF ~MethodByName(m, m.Indexes.Present) THEN Passthrough(m, engineErr)
  ELSE IF m.Indexes.NumIn # 0 \/ m.Indexes.NumOut # 1 THEN Passthrough(m, engineErr)
  ELSE IF m.Indexes.OutKind # "slice"
  THEN [Passthrough(m, engineErr) EXCEPT !.indexes = 1]
  ELSE IF Len(m.Indexes.Defs) = 0
  THEN [Passthrough(m, engineErr) EXCEPT !.indexes = 1]
  ELSE
    LET c == collectIndexTagsFromIndexesValue(m.T, m.Indexes.Defs) IN
    IF c.err # "" THEN [Failure(c.err, c.calls, c.probes) EXCEPT !.indexes = 1]
    ELSE [err |-> engineErr, calls |-> c.calls, log |-> c.log, tags |-> c.tags,
          probes |-> c.probes, indexes |-> 1,
          engine |-> <<[table |-> TableOf(m), projection |-> TRUE,
                        value |-> ProjectFields(m.T, c.tags, 1, order),
                        answer |-> engineErr]>>]

(***************************************************************************)
(* ExtractRequiredExtensions                                               *)
(***************************************************************************)

\* AddExtensions without the seen map.
RECURSIVE AddExtensionsNoSeen(_, _, _)
AddExtensionsNoSeen(exts, j, acc) ==
  IF j >= Len(exts) THEN acc
  ELSE
    LET ext == exts[j + 1] IN
    IF ext # ""
    THEN AddExtensionsNoSeen(exts, j + 1, Append(acc, ext))
    ELSE AddExtensionsNoSeen(exts, j + 1, acc)

\* AddExtensions without the test for the empty string.
RECURSIVE AddExtensionsKeepEmpty(_, _, _)
AddExtensionsKeepEmpty(exts, j, acc) ==
  IF j >= Len(exts) THEN acc
  ELSE
    LET ext == exts[j + 1] IN
    IF ext \notin Range(acc)
    THEN AddExtensionsKeepEmpty(exts, j + 1, Append(acc, ext))
    ELSE AddExtensionsKeepEmpty(exts, j + 1, acc)

\* Lines 177-183 for one declaration: acc is the list built so far (seen
\* holds exactly its elements).
RECURSIVE AddExtensions(_, _, _)
AddExtensions(exts, j, acc) ==
  IF j >= Len(exts) THEN acc
  ELSE
    LET ext == exts[j + 1] IN
    IF ext # "" /\ ext \notin Range(acc)
    THEN AddExtensions(exts, j + 1, Append(acc, ext))
    ELSE AddExtensions(exts, j + 1, acc)

\* Lines 163-184.
RECURSIVE ExtensionsFrom(_, _, _)
ExtensionsFrom(defs, i, acc) ==
  IF i >= Len(defs) THEN acc
  ELSE
    LET def == defs[i + 1] IN
    IF def.Kind # "struct" THEN ExtensionsFrom(defs, i + 1, acc)
    ELSE IF ~def.HasExtensions THEN ExtensionsFrom(defs, i + 1, acc)
    ELSE ExtensionsFrom(defs, i + 1, AddExtensions(def.Extensions, 0, acc))

\* The returned slice; <<>> is the nil slice (the function never builds an
\* empty slice that is not nil).
ExtractRequiredExtensions(m) ==
  IF m.IsNil THEN <<>>
  ELSE IF ~MethodByName(m, m.Indexes.Present) THEN <<>>
  ELSE IF m.Indexes.NumIn # 0 \/ m.Indexes.NumOut # 1 THEN <<>>
  ELSE IF m.Indexes.OutKind # "slice" \/ Len(m.Indexes.Defs) = 0 THEN <<>>
  ELSE ExtensionsFrom(m.Indexes.Defs, 0, <<>>)

(***************************************************************************)
(* The public constructors of index_definition.go.                         *)
(***************************************************************************)
Field(selector) ==
  [Kind |-> "struct", HasSel |-> TRUE, Sel |-> selector, Sort |-> "",
   Nulls |-> "", HasOpClass |-> TRUE, OpClass |-> ""]

Asc(c) == [c EXCEPT !.Sort = "asc"]

Desc(c) == [c EXCEPT !.Sort = "desc"]

NullsFirst(c) == [c EXCEPT !.Nulls = "first"]

NullsLast(c) == [c EXCEPT !.Nulls = "last"]

Class(c, cls) == [c EXCEPT !.OpClass = cls]

IndexDefinition(name, columns, unique, where, type, extensions) ==
  [Kind |-> "struct", LooksLike |-> TRUE, HasType |-> TRUE, Name |-> name,
   Columns |-> columns, ColsIsSlice |-> TRUE, Unique |-> unique,
   Where |-> where, Type |-> type, HasExtensions |-> TRUE,
   Extensions |-> extensions]

(***************************************************************************)
(* Inputs: the model types the calls are applied to.                       *)
(***************************************************************************)
StructField(name, pkgPath, type, tag, anonymous, offset, size, sub) ==
  [Name |-> name, PkgPath |-> pkgPath, Type |-> type, Tag |-> tag,
   Anonymous |-> anonymous, Offset |-> offset, Size |-> size, Sub |-> sub]

\* internal/testdata/models/notebook_file.go
NotebookFile ==
  [Name |-> "NotebookFile",
   Fields |-> <<
     StructField("ID", "", "uint", "gorm:\"primaryKey\"", FALSE, 0, 8, <<>>),
     StructField("TenantID", "", "string", "gorm:\"type:text;not null\"", FALSE, 8, 16, <<>>),
     StructField("ScanVersion", "", "int", "gorm:\"not null\"", FALSE, 24, 8, <<>>),
     StructField("FileName", "", "string", "gorm:\"type:text;not null\"", FALSE, 32, 16, <<>>)>>]

\* internal/testdata/models/noma_table_name_pointer_receiver.go
TestModelTableNamePointerReceiver ==
  [Name |-> "TestModelTableNamePointerReceiver",
   Fields |-> <<
     StructField("ID", "", "string", "gorm:\"column:id\"", FALSE, 0, 16, <<>>),
     StructField("Name", "", "string", "gorm:\"column:name\"", FALSE, 16, 16, <<>>),
     StructField("Age", "", "int", "gorm:\"column:age\"", FALSE, 32, 8, <<>>)>>]

\* A model that embeds gorm.Model, keeps an unexported field, declares
\* indexes inline and nests a struct:
\*   type Account struct {
\*       gorm.Model
\*       Name    string `gorm:"index:idx_old;not null" json:"name"`
\*       secret  string
\*       Email   string `gorm:"uniqueIndex"`
\*       Profile struct{ Bio, URL string } `gorm:"embedded"`
\*       Phone   string `gorm:"uniqueIndex:idx_phone;size:32"`
\*   }
Account ==
  [Name |-> "Account",
   Fields |-> <<
     StructField("Model", "", "gorm.Model", "", TRUE, 0, 32, <<0, 8>>),
     StructField("Name", "", "string", "gorm:\"index:idx_old;not null\" json:\"name\"", FALSE, 32, 16, <<>>),
     StructField("secret", "models", "string", "", FALSE, 48, 16, <<>>),
     StructField("Email", "", "string", "gorm:\"uniqueIndex\"", FALSE, 64, 16, <<>>),
     StructField("Profile", "", "struct", "gorm:\"embedded\"", FALSE, 80, 32, <<0, 16>>),
     StructField("Phone", "", "string", "gorm:\"uniqueIndex:idx_phone;size:32\"", FALSE, 112, 16, <<>>)>>]

StructTypes == {NotebookFile, TestModelTableNamePointerReceiver, Account}

\* func(m *T) any { return <pointer to target> }
Selector(t, target) ==
  [Kind |-> "func", NumIn |-> 1, In0Ptr |-> TRUE, NumOut |-> 1, T |-> t,
   OutIface |-> TRUE, Res |-> "pointer", Target |-> target]

\* func(m *T) any { return &m.F } for the k-th field F of T.
FieldSelector(t, k) == Selector(t, [kind |-> "field", f |-> k])

\* An address outside the probe instance: a variable allocated before it,
\* right after it, or far from it.
OtherAddrs(t) == {ProbeAddr - 8, ProbeAddr + StructSize(t), 2 * ProbeAddr}

SeqsUpTo(S, n) == UNION {[1..k -> S] : k \in 0..n}

SeqsFromOne(S, n) == UNION {[1..k -> S] : k \in 1..n}

(***************************************************************************)
(* Inputs of AutoMigrateModel.                                             *)
(***************************************************************************)

\* The columns declarations are built from, over fields a, b and c of t.
\* One operator class is a space and a form feed, another is padded with
\* a form feed and a no-break space.
ColPalette(t, a, b, c) ==
  { Field(FieldSelector(t, a)),
    Class(Desc(NullsLast(Field(FieldSelector(t, b)))), "gin_trgm_ops"),
    [Field(FieldSelector(t, c)) EXCEPT !.Sort = " asc", !.OpClass = " \f"],
    [Field(FieldSelector(t, b)) EXCEPT !.Nulls = "first", !.OpClass = "\ftext_pattern_ops "],
    Field(Selector(t, [kind |-> "other", addr |-> 2 * ProbeAddr])) }

\* Name, Unique, Where and Type of the declarations.
DefOptions ==
  { [Name |-> "idx_a", Unique |-> FALSE, Where |-> "", Type |-> ""],
    [Name |-> "idx_b", Unique |-> TRUE, Where |-> "deleted_at IS NULL", Type |-> "gin"],
    [Name |-> "idx_c", Unique |-> FALSE, Where |-> "  ", Type |-> " gist "] }

DefSet(palette, maxCols) ==
  { IndexDefinition(o.Name, cols, o.Unique, o.Where, o.Type, <<>>) :
      o \in DefOptions, cols \in SeqsUpTo(palette, maxCols) }

\* The declarations that accompany another one in the same Indexes().
DefTail(t, a, c) ==
  { IndexDefinition("idx_u",
      <<Field(FieldSelector(t, a)),
        Class(Desc(NullsLast(Field(FieldSelector(t, c)))), "gin_trgm_ops")>>,
      TRUE, "deleted_at IS NULL", "gin", <<>>),
    IndexDefinition("idx_p", <<Asc(Field(FieldSelector(t, c)))>>, FALSE, "", "", <<>>) }

\* The results of Indexes(): one declaration of any shape, preceded or
\* followed by up to maxDefs - 1 accompanying declarations.
DefSeqs(t, a, b, c, maxCols, maxDefs) ==
  UNION { {<<d>> \o more, more \o <<d>>} :
            d \in DefSet(ColPalette(t, a, b, c), maxCols),
            more \in SeqsUpTo(DefTail(t, a, c), maxDefs - 1) }

Indexes(defs) ==
  [Present |-> TRUE, NumIn |-> 0, NumOut |-> 1, OutKind |-> "slice", Defs |-> defs]

\* The Indexes methods that make AutoMigrateModel fall back.
NoIndexes ==
  { [Indexes(<<>>) EXCEPT !.Present = FALSE],
    [Indexes(<<>>) EXCEPT !.NumIn = 1],
    [Indexes(<<>>) EXCEPT !.NumOut = 2],
    [Indexes(<<>>) EXCEPT !.OutKind = "map"],
    Indexes(<<>>) }

ModelOf(t, ptrDepth, tabler, indexes) ==
  [IsNil |-> FALSE, PtrDepth |-> ptrDepth, Kind |-> "struct", T |-> t,
   Indexes |-> indexes, Tabler |-> tabler,
   TableName |-> IF tabler = "none" THEN "" ELSE toSnakeCase(t.Name) \o "s"]

Tablers == {"none", "value", "pointer"}

\* models.TestModelTableNamePointerReceiver, passed by value or by pointer.
PointerReceiverModel(ptrDepth) ==
  [ModelOf(TestModelTableNamePointerReceiver, ptrDepth, "pointer",
     Indexes(<<IndexDefinition("idx_test_model_unique",
                 <<Field(FieldSelector(TestModelTableNamePointerReceiver, 2)),
                   Field(FieldSelector(TestModelTableNamePointerReceiver, 3))>>,
                 TRUE, "", "", <<>>)>>))
   EXCEPT !.TableName = "test_model_table_name_pointer_receiver"]

NilModel == [ModelOf(NotebookFile, 0, "none", Indexes(<<>>)) EXCEPT !.IsNil = TRUE]

\* Values of a type that is no struct, or pointers to them; the named
\* slice type declares Indexes() and TableName().
NotAStruct ==
  { [ModelOf(NotebookFile, d, "none", Indexes(<<>>)) EXCEPT !.Kind = k] :
      d \in 0..1, k \in {"int", "slice"} }
  \cup { [PointerReceiverModel(d) EXCEPT !.Kind = k] :
           d \in 0..2, k \in {"slice", "map"} }

Models ==
  {NilModel} \cup NotAStruct
  \cup { PointerReceiverModel(d) : d \in 0..1 }
  \cup { ModelOf(t, d, tb, ix) :
           t \in StructTypes, d \in 0..2, tb \in Tablers, ix \in NoIndexes }
  \cup { ModelOf(NotebookFile, 0, "value", Indexes(defs)) :
           defs \in DefSeqs(NotebookFile, 2, 3, 4, MaxCols, MaxDefs) }
  \cup { ModelOf(Account, d, tb, Indexes(<<def>>)) :
           d \in 0..2, tb \in Tablers, def \in DefSet(ColPalette(Account, 2, 4, 5), 1) }

(***************************************************************************)
(* Specification of AutoMigrateModel: one call on any of the models.       *)
(***************************************************************************)
\* The orders in which Go may visit a map whose keys are among keys.
RECURSIVE Perms(_)
Perms(S) ==
  IF S = {} THEN {<<>>}
  ELSE UNION {{<<x>> \o p : p \in Perms(S \ {x})} : x \in S}

MapOrders(keys) == Perms(keys \cup {"gorm"})

\* The keys of the tags of the fields of a struct type.
TagKeys(t) == UNION {DOMAIN parseStructTag(t.Fields[k].Tag) : k \in DOMAIN t.Fields}

Idle ==
  /\ sel = FieldSelector(NotebookFile, 1)
  /\ orig = ""
  /\ toAdd = <<>>
  /\ ret = <<>>
  /\ engine = <<>>
  /\ selCalls = 0
  /\ iter = <<>>
  /\ probes = <<>>
  /\ str = ""

Init ==
  /\ pc = "ready"
  /\ model \in Models
  /\ Idle

\* The migration engine answers nil or an error of its own.
EngineErrs == {"", "engine: migration failed"}

Migrate ==
  /\ pc = "ready"
  /\ \E engineErr \in EngineErrs, order \in MapOrders(TagKeys(model.T)) :
       /\ ret' = AutoMigrateModel(model, engineErr, order)
       /\ iter' = <<order>>
  /\ engine' = ret'.engine
  /\ selCalls' = ret'.calls
  /\ probes' = ret'.probes
  /\ pc' = "migrated"
  /\ UNCHANGED <<model, sel, orig, toAdd, str>>

Next == Migrate

Spec == Init /\ [][Next]_vars

(***************************************************************************)
(* Properties of the fragments AutoMigrateModel assembles.                 *)
(***************************************************************************)

\* The declaration and the column a log entry was assembled from.
DefOf(e) == model.Indexes.Defs[e.index + 1]

ColOf(e) == DefOf(e).Columns[e.column + 1]

HasMarker(parts, m) == \E k \in DOMAIN parts : parts[k] = m

HasKey(parts, key) == \E k \in DOMAIN parts : HasPrefix(parts[k], key)

\* The call went through the projection path and reached the engine.
Projected ==
  pc = "migrated" /\ Len(ret.engine) = 1 /\ ret.engine[1].projection

\* C1, as stated: for every column assembled, `unique`, `where:<Where>`
\* and `type:<Type>` are in the fragment of the column at position 0
\* exactly when Unique is true / Where is non-empty / Type is non-empty,
\* and in the fragment of no column at a position j > 0.
C1_AsStated ==
  pc = "migrated" =>
    \A k \in DOMAIN ret.log :
      LET e == ret.log[k]
          def == DefOf(e)
      IN IF e.column = 0
         THEN /\ HasMarker(e.parts, "unique") <=> def.Unique
              /\ HasKey(e.parts, "where:") <=> def.Where # ""
              /\ def.Where # "" => HasMarker(e.parts, "where:" \o def.Where)
              /\ HasKey(e.parts, "type:") <=> def.Type # ""
              /\ def.Type # "" => HasMarker(e.parts, "type:" \o def.Type)
         ELSE /\ ~HasMarker(e.parts, "unique")
              /\ ~HasKey(e.parts, "where:")
              /\ ~HasKey(e.parts, "type:")

\* C1, amended: for every column assembled, `unique`, `where:<predicate>`
\* and `type:<method>` are in the fragment of the column at position 0
\* exactly when Unique is true / Where, trimmed of surrounding white space,
\* is non-empty / Type, trimmed, is non-empty, <predicate> and <method>
\* being the trimmed texts; they are in the fragment of no column at a
\* position j > 0.
C1_FirstColumnOnly ==
  pc = "migrated" =>
    \A k \in DOMAIN ret.log :
      LET e == ret.log[k]
          def == DefOf(e)
          where == TrimSpace(def.Where)
          type == TrimSpace(def.Type)
      IN IF e.column = 0
         THEN /\ HasMarker(e.parts, "unique") <=> def.Unique
              /\ HasKey(e.parts, "where:") <=> where # ""
              /\ where # "" => HasMarker(e.parts, "where:" \o where)
              /\ HasKey(e.parts, "type:") <=> type # ""
              /\ type # "" => HasMarker(e.parts, "type:" \o type)
         ELSE /\ ~HasMarker(e.parts, "unique")
              /\ ~HasKey(e.parts, "where:")
              /\ ~HasKey(e.parts, "type:")

\* A unique, partial, typed index of several columns was assembled, next
\* to one whose Where is blank and whose Type is padded.
C1_Witness ==
  /\ Projected
  /\ \E k1, k2 \in DOMAIN ret.log :
       /\ ret.log[k1].index = ret.log[k2].index
       /\ ret.log[k1].column = 0 /\ ret.log[k2].column > 0
       /\ DefOf(ret.log[k1]).Unique
       /\ HasMarker(ret.log[k1].parts, "where:deleted_at IS NULL")
       /\ HasMarker(ret.log[k1].parts, "type:gin")
  /\ \E k \in DOMAIN ret.log :
       /\ ret.log[k].column = 0
       /\ DefOf(ret.log[k]).Where = "  "
       /\ HasMarker(ret.log[k].parts, "type:gist")

\* C2, as stated: a column whose OpClass is non-empty carries
\* `expression:<snake-case field name> <OpClass>`, at any position; a
\* column whose OpClass is empty carries no `expression:` marker.
C2_AsStated ==
  pc = "migrated" =>
    \A k \in DOMAIN ret.log :
      LET e == ret.log[k]
          cls == ColOf(e).OpClass
      IN IF cls # ""
         THEN HasMarker(e.parts, "expression:" \o toSnakeCase(e.field) \o " " \o cls)
         ELSE ~HasKey(e.parts, "expression:")

\* C2, amended: a column whose operator class, trimmed of surrounding
\* white space, is non-empty carries, at any position, the marker
\* `expression:<n> <c>`: <n> the snake-case form of the resolved field
\* name, one space, <c> the trimmed operator class; a column whose
\* operator class is empty or blank carries no `expression:` marker.
C2_Expression ==
  pc = "migrated" =>
    \A k \in DOMAIN ret.log :
      LET e == ret.log[k]
          cls == TrimSpace(ColOf(e).OpClass)
      IN IF cls # ""
         THEN HasMarker(e.parts, "expression:" \o toSnakeCase(e.field) \o " " \o cls)
         ELSE ~HasKey(e.parts, "expression:")

\* An operator class was emitted for a column that is not the first of
\* its index and whose field name has two words, and a padded one for a
\* first column.
C2_Witness ==
  /\ Projected
  /\ \E k \in DOMAIN ret.log :
       /\ ret.log[k].column > 0
       /\ HasMarker(ret.log[k].parts, "expression:file_name gin_trgm_ops")
  /\ \E k \in DOMAIN ret.log :
       /\ ret.log[k].column = 0
       /\ ColOf(ret.log[k]).OpClass = "\ftext_pattern_ops "
       /\ HasMarker(ret.log[k].parts, "expression:scan_version text_pattern_ops")

\* C3: a column whose operator class is set carries the marker
\* `class:<operator class>`, and a column without one carries no `class:`
\* marker.
C3_ClassMarker ==
  pc = "migrated" =>
    \A k \in DOMAIN ret.log :
      LET e == ret.log[k]
          cls == TrimSpace(ColOf(e).OpClass)
      IN IF cls # ""
         THEN HasMarker(e.parts, "class:" \o cls)
         ELSE ~HasKey(e.parts, "class:")

\* Decimal numerals, written out.
Numeral == <<"1", "2", "3", "4", "5", "6", "7", "8", "9">>

\* The columns assembled for the declaration at zero-based position i.
LogOfIndex(i) == SelectSeq(ret.log, LAMBDA e : e.index = i)

\* C4: the fragment of the column at zero-based position j of a
\* declaration holds `index:<Name>` and `priority:<j+1>`, and no other
\* priority; when every column resolves, the columns of one declaration
\* carry the priorities 1..N in column order.
C4_IndexAndPriority ==
  pc = "migrated" =>
    /\ \A k \in DOMAIN ret.log :
         LET e == ret.log[k] IN
         /\ HasMarker(e.parts, "index:" \o DefOf(e).Name)
         /\ HasMarker(e.parts, "priority:" \o Numeral[e.column + 1])
         /\ Cardinality({n \in DOMAIN e.parts : HasPrefix(e.parts[n], "priority:")}) = 1
    /\ Projected =>
         \A i \in 0..(Len(model.Indexes.Defs) - 1) :
           LET cols == LogOfIndex(i) IN
           /\ Len(cols) = Len(model.Indexes.Defs[i + 1].Columns)
           /\ \A n \in DOMAIN cols :
                HasMarker(cols[n].parts, "priority:" \o Numeral[n])

\* An index of MaxCols columns was assembled.
C4_Witness ==
  /\ Projected
  /\ \E i \in 0..(Len(model.Indexes.Defs) - 1) :
       /\ Len(LogOfIndex(i)) = MaxCols
       /\ HasMarker(LogOfIndex(i)[MaxCols].parts, "priority:" \o Numeral[MaxCols])

(***************************************************************************)
(* Properties of the fallback path of AutoMigrateModel.                    *)
(***************************************************************************)

\* The model is a struct (or points to one, at any depth) that has no
\* Indexes() method, or whose Indexes() returns an empty list.
NoDeclarations(m) ==
  /\ ~m.IsNil
  /\ m.Kind = "struct"
  /\ \/ ~m.Indexes.Present
     \/ /\ m.Indexes.NumIn = 0 /\ m.Indexes.NumOut = 1
        /\ m.Indexes.OutKind = "slice"
        /\ Len(m.Indexes.Defs) = 0

\* C7: for such a model the migration engine is called exactly once, by a
\* plain AutoMigrate on the caller's model itself; no projection is built,
\* no selector is invoked and the error returned is the engine's answer.
C7_Passthrough ==
  (pc = "migrated" /\ NoDeclarations(model)) =>
    /\ Len(engine) = 1
    /\ engine[1].projection = FALSE
    /\ engine[1].table = <<>>
    /\ engine[1].value = model
    /\ selCalls = 0
    /\ ret.err = engine[1].answer

\* A model with a table name whose Indexes() returns an empty list was
\* migrated, and the engine failed.
C7_Witness ==
  /\ pc = "migrated"
  /\ model.Indexes.Present /\ model.Indexes.NumIn = 0 /\ model.Indexes.NumOut = 1
  /\ model.Indexes.OutKind = "slice" /\ Len(model.Indexes.Defs) = 0
  /\ model.PtrDepth = 0 /\ model.Tabler = "value"
  /\ Len(engine) = 1
  /\ ret.err # ""

(***************************************************************************)
(* Specification of fieldNameFromSelectorValue: one resolution of any      *)
(* selector over any of the model types.                                   *)
(***************************************************************************)

\* What a selector can point at: any field, any sub-field of a nested or
\* embedded struct, the probe itself, or a variable outside the probe.
Targets(t) ==
  {[kind |-> "field", f |-> k] : k \in DOMAIN t.Fields}
  \cup UNION {{[kind |-> "sub", f |-> k, s |-> n] : n \in DOMAIN t.Fields[k].Sub} :
                k \in DOMAIN t.Fields}
  \cup {[kind |-> "self"]}
  \cup {[kind |-> "other", addr |-> a] : a \in OtherAddrs(t)}

\* Kind, NumIn, In0Ptr and NumOut of the values found in a Sel field.
Shapes ==
  { [Kind |-> "func", NumIn |-> 1, In0Ptr |-> TRUE, NumOut |-> 1],
    [Kind |-> "string", NumIn |-> 0, In0Ptr |-> FALSE, NumOut |-> 0],
    [Kind |-> "func", NumIn |-> 0, In0Ptr |-> FALSE, NumOut |-> 1],
    [Kind |-> "func", NumIn |-> 2, In0Ptr |-> TRUE, NumOut |-> 1],
    [Kind |-> "func", NumIn |-> 1, In0Ptr |-> FALSE, NumOut |-> 1],
    [Kind |-> "func", NumIn |-> 1, In0Ptr |-> TRUE, NumOut |-> 0],
    [Kind |-> "func", NumIn |-> 1, In0Ptr |-> TRUE, NumOut |-> 2] }

\* A selector of shape sh over t, declared to return `any` (iface) or a
\* pointer, that returns res (pointing at target).
SelectorOf(t, sh, iface, res, target) ==
  [Selector(t, target) EXCEPT !.Kind = sh.Kind, !.NumIn = sh.NumIn,
     !.In0Ptr = sh.In0Ptr, !.NumOut = sh.NumOut, !.OutIface = iface, !.Res = res]

SelectorsOver(t) ==
  { SelectorOf(t, sh, iface, "pointer", target) :
      sh \in Shapes, iface \in BOOLEAN, target \in Targets(t) }
  \cup { SelectorOf(t, sh, TRUE, res, [kind |-> "self"]) :
           sh \in Shapes, res \in {"nilInterface", "value", "nilPointer"} }
  \cup { SelectorOf(t, sh, FALSE, res, [kind |-> "self"]) :
           sh \in Shapes, res \in {"value", "nilPointer"} }

Selectors == UNION {SelectorsOver(t) : t \in StructTypes}

InitResolver ==
  /\ pc = "ready"
  /\ sel \in Selectors
  /\ model = NilModel
  /\ orig = ""
  /\ toAdd = <<>>
  /\ ret = <<>>
  /\ engine = <<>>
  /\ selCalls = 0
  /\ iter = <<>>
  /\ probes = <<>>
  /\ str = ""

Resolve ==
  /\ pc = "ready"
  /\ ret' = fieldNameFromSelectorValue(sel, probes)
  /\ selCalls' = ret'.calls
  /\ probes' = probes \o ret'.probes
  /\ pc' = "resolved"
  /\ UNCHANGED <<model, sel, orig, toAdd, engine, iter, str>>

\* The resolution of another column that holds the same selector.
ResolveAgain ==
  /\ pc = "resolved"
  /\ ret' = fieldNameFromSelectorValue(sel, probes)
  /\ selCalls' = selCalls + ret'.calls
  /\ probes' = probes \o ret'.probes
  /\ pc' = "again"
  /\ UNCHANGED <<model, sel, orig, toAdd, engine, iter, str>>

NextResolver == Resolve \/ ResolveAgain

SpecResolver == InitResolver /\ [][NextResolver]_vars

(***************************************************************************)
(* Specification of mergeIndexIntoGormTag: one merge of any list of new    *)
(* fragments into any tag.                                                 *)
(***************************************************************************)

\* The pieces inline gorm tags are built from; one is padded with a
\* vertical tab and a no-break space.
GormPieces ==
  { "index:idx_old", "uniqueIndex:idx_u", "index", "uniqueIndex", "not null",
    "index:idx_pad,priority:2 ", "type:text", "" }

GormValues == {Join(ps, ";") : ps \in SeqsUpTo(GormPieces, MaxPieces)}

\* Tags of fields; the last two hold a value with escaped double quotes,
\* written \" in the tag.
Tags ==
  {"", "json:\"name\"", "json:\"name\" json5:\"name\""}
  \cup UNION { { "gorm:" \o Quote(v),
                 "json:\"name\" gorm:" \o Quote(v) } : v \in GormValues }
  \cup { "gorm:" \o Quote(v) \o " json:\"name\" yaml:\"n\"" :
           v \in {"", "not null", "index:idx_old", "uniqueIndex;not null"} }
  \cup { "yaml:\"n\" json:\"name\" gorm:\"not null\" json5:\"name\"" }
  \cup { "gorm:\"index:idx_old;not null\" validate:\"oneof=\\\"a\\\" \\\"b\\\"\"",
         "gorm:\"comment:\\\"x\\\";not null\" json:\"name\"" }

\* Fragments as collectIndexTagsFromIndexesValue assembles them.
Fragments ==
  { "index:idx_a,priority:1",
    "index:idx_b,priority:2,sort:desc nulls last,unique" }

InitMerge ==
  /\ pc = "ready"
  /\ orig \in Tags
  /\ toAdd \in SeqsUpTo(Fragments, MaxAdd)
  /\ model = NilModel
  /\ sel = FieldSelector(NotebookFile, 1)
  /\ ret = <<>>
  /\ engine = <<>>
  /\ selCalls = 0
  /\ iter = <<>>
  /\ probes = <<>>
  /\ str = ""

Merge ==
  /\ pc = "ready"
  /\ \E order \in MapOrders(DOMAIN parseStructTag(orig)) :
       /\ ret' = mergeIndexIntoGormTag(orig, toAdd, order)
       /\ iter' = <<order>>
  /\ pc' = "merged"
  /\ UNCHANGED <<model, sel, orig, toAdd, engine, selCalls, str, probes>>

\* A second synthesis over the same tag and the same fragments.
MergeAgain ==
  /\ pc = "merged"
  /\ \E order \in MapOrders(DOMAIN parseStructTag(orig)) :
       /\ ret' = mergeIndexIntoGormTag(orig, toAdd, order)
       /\ iter' = Append(iter, order)
  /\ pc' = "again"
  /\ UNCHANGED <<model, sel, orig, toAdd, engine, selCalls, str, probes>>

NextMerge == Merge \/ MergeAgain

SpecMerge == InitMerge /\ [][NextMerge]_vars

(***************************************************************************)
(* Specification of ExtractRequiredExtensions: one call on any model, and  *)
(* a second call on a model that declares the result of the first.         *)
(***************************************************************************)
ExtNames == {"", "pg_trgm", "btree_gin", "hstore"}

WithExtensions(exts) == IndexDefinition("idx", <<>>, FALSE, "", "", exts)

\* The elements of the slices Indexes() returns: declarations with any
\* list of extensions, a value that is no struct, and a struct with no
\* Extensions field.
ExtDefs ==
  {WithExtensions(exts) : exts \in SeqsUpTo(ExtNames, MaxExts)}
  \cup { [WithExtensions(<<"pg_trgm">>) EXCEPT !.Kind = "int"],
         [WithExtensions(<<"pg_trgm">>) EXCEPT !.HasExtensions = FALSE] }

ExtModels ==
  {NilModel}
  \cup { ModelOf(NotebookFile, d, "value", ix) : d \in 0..2, ix \in NoIndexes }
  \cup { [ModelOf(NotebookFile, d, "none", Indexes(<<WithExtensions(<<"pg_trgm">>)>>))
            EXCEPT !.Kind = k] : d \in 0..2, k \in {"struct", "int"} }
  \cup { [ModelOf(NotebookFile, 0, "value", Indexes(<<WithExtensions(<<"pg_trgm">>)>>))
            EXCEPT !.Indexes = ix] :
           ix \in { [Indexes(<<WithExtensions(<<"pg_trgm">>)>>) EXCEPT !.NumIn = 1],
                    [Indexes(<<WithExtensions(<<"pg_trgm">>)>>) EXCEPT !.NumOut = 2],
                    [Indexes(<<WithExtensions(<<"pg_trgm">>)>>) EXCEPT !.OutKind = "map"],
                    [Indexes(<<WithExtensions(<<"pg_trgm">>)>>) EXCEPT !.Present = FALSE] } }
  \cup { ModelOf(NotebookFile, 0, "value", Indexes(defs)) :
           defs \in SeqsFromOne(ExtDefs, MaxDefs) }

InitExtensions ==
  /\ pc = "ready"
  /\ model \in ExtModels
  /\ Idle

Extract ==
  /\ pc = "ready"
  /\ ret' = ExtractRequiredExtensions(model)
  /\ pc' = "extracted"
  /\ UNCHANGED <<model, sel, orig, toAdd, engine, selCalls, iter, str, probes>>

\* The aggregation applied to its own output: a model whose only
\* declaration requires the extensions just returned.
ExtractAgain ==
  /\ pc = "extracted"
  /\ model' = ModelOf(NotebookFile, 0, "value", Indexes(<<WithExtensions(ret)>>))
  /\ ret' = ExtractRequiredExtensions(model')
  /\ pc' = "again"
  /\ UNCHANGED <<sel, orig, toAdd, engine, selCalls, iter, str, probes>>

NextExtensions == Extract \/ ExtractAgain

SpecExtensions == InitExtensions /\ [][NextExtensions]_vars

(***************************************************************************)
(* Properties of the Selector Resolver.                                    *)
(***************************************************************************)

\* The selector passes the shape check and returns a non-nil pointer.
ReturnsPointer(s) ==
  /\ s.Kind = "func" /\ s.NumIn = 1 /\ s.In0Ptr /\ s.NumOut = 1
  /\ s.Res = "pointer"

NotATopLevelField(s) == ErrNotTopLevel \o s.T.Name

\* C9: a selector that returns the address of a sub-field of a nested or
\* embedded struct, the sub-field at the start of its enclosing field
\* included, fails with "didn't point to a top-level exported field"; and
\* a resolution that succeeds names exactly one exported top-level field.
C9_NestedRejected ==
  pc = "resolved" =>
    /\ (ReturnsPointer(sel) /\ sel.Target.kind = "sub") =>
         (ret.err = NotATopLevelField(sel) /\ ret.name = "")
    /\ ret.err = "" =>
         Cardinality({k \in DOMAIN sel.T.Fields :
                        /\ sel.T.Fields[k].PkgPath = ""
                        /\ sel.T.Fields[k].Name = ret.name}) = 1

\* C10: a selector returning the non-nil address of a variable outside
\* the probe is rejected with "didn't point to a top-level exported field",
\* and one returning the address of the exported top-level field F resolves
\* to the name of F.
C10_UnrelatedRejected ==
  (pc = "resolved" /\ ReturnsPointer(sel)) =>
    /\ sel.Target.kind = "other" =>
         (ret.err = NotATopLevelField(sel) /\ ret.name = "")
    /\ (sel.Target.kind = "field" /\ sel.T.Fields[sel.Target.f].PkgPath = "") =>
         (ret.err = "" /\ ret.name = sel.T.Fields[sel.Target.f].Name)

\* The address of a variable allocated right after the probe was rejected.
C10_Witness ==
  /\ pc = "resolved"
  /\ ReturnsPointer(sel)
  /\ sel.Target.kind = "other"
  /\ sel.Target.addr = ProbeAddr + StructSize(sel.T)
  /\ sel.T = Account
  /\ ret.err = "Sel didn't point to a top-level exported field on Account"
  /\ selCalls = 1

(***************************************************************************)
(* Properties of the merge step.                                           *)
(***************************************************************************)

\* The key of a gorm fragment: its text up to the first colon.
KeyOf(piece) ==
  LET p == TrimSpace(piece)
      k == IndexFrom(p, ":", 1)
  IN IF k = 0 THEN p ELSE Take(p, k - 1)

\* The fragment declares an index, with or without a value.
DeclaresIndex(piece) == KeyOf(piece) \in {"index", "uniqueIndex"}

\* The fragments of the gorm key of a tag.
GormFragments(tag) ==
  IF "gorm" \in DOMAIN parseStructTag(tag)
  THEN Split(parseStructTag(tag)["gorm"], ";")
  ELSE <<>>

\* C8: after the merge, the fragments of the gorm key in front of the
\* newly appended ones hold no index declaration of the original tag,
\* whether written with a value (index:name, uniqueIndex:name) or without
\* (index, uniqueIndex).
C8_NoStaleIndexFragment ==
  pc = "merged" =>
    LET frags == GormFragments(ret)
        kept == SubSeq(frags, 1, Len(frags) - Len(toAdd))
    IN \A k \in DOMAIN kept : ~DeclaresIndex(kept[k])

(***************************************************************************)
(* Properties of ExtractRequiredExtensions.                                *)
(***************************************************************************)

\* Indexes() can be called and returns a slice.
HasIndexes(m) ==
  /\ ~m.IsNil /\ m.PtrDepth <= 1
  /\ m.Indexes.Present /\ m.Indexes.NumIn = 0 /\ m.Indexes.NumOut = 1
  /\ m.Indexes.OutKind = "slice"

\* The extension names of the declarations, in declaration order and, in a
\* declaration, in the order of its Extensions.
RECURSIVE Flatten(_)
Flatten(defs) ==
  IF Len(defs) = 0 THEN <<>>
  ELSE (IF Head(defs).Kind = "struct" /\ Head(defs).HasExtensions
        THEN Head(defs).Extensions ELSE <<>>) \o Flatten(Tail(defs))

Declared(m) == IF HasIndexes(m) THEN Flatten(m.Indexes.Defs) ELSE <<>>

\* Position of the first occurrence of x in list.
FirstAt(list, x) == CHOOSE k \in DOMAIN list : list[k] = x /\ \A n \in 1..(k - 1) : list[n] # x

\* The result holds each distinct non-empty declared name once, in the
\* order of first occurrence.
FirstOccurrences ==
  pc \in {"extracted", "again"} =>
    LET all == Declared(model) IN
    /\ \A a, b \in DOMAIN ret : a # b => ret[a] # ret[b]
    /\ Range(ret) = Range(all) \ {""}
    /\ \A a, b \in DOMAIN ret : a < b => FirstAt(all, ret[a]) < FirstAt(all, ret[b])

\* C5: ExtractRequiredExtensions returns each distinct non-empty extension
\* name exactly once, in the order of first occurrence over the
\* declarations and their Extensions, never the empty string; and applied
\* to a model declaring its own output it returns that output again.
C5_Aggregation ==
  /\ []FirstOccurrences
  /\ [][pc' = "again" => ret' = ret]_vars

\* Two declarations named the same extension, and an empty one, and the
\* result is not in alphabetical order; it was aggregated a second time.
C5_Witness ==
  /\ pc = "again"
  /\ ret = <<"pg_trgm", "btree_gin">>
  /\ model.Indexes.Defs[1].Extensions = ret

\* C6: the result is nil when the model is absent, has no Indexes()
\* method, declares nothing, or declares no non-empty extension name.
C6_NilResult ==
  (/\ pc = "extracted"
   /\ \/ model.IsNil
      \/ ~model.Indexes.Present
      \/ Len(model.Indexes.Defs) = 0
      \/ \A i \in DOMAIN model.Indexes.Defs :
           \A j \in DOMAIN model.Indexes.Defs[i].Extensions :
             model.Indexes.Defs[i].Extensions[j] = "")
  => ret = <<>>

\* Two declarations that name only empty extensions yielded nil.
C6_Witness ==
  /\ pc = "extracted"
  /\ HasIndexes(model)
  /\ Len(model.Indexes.Defs) = 2
  /\ \A i \in 1..2 : model.Indexes.Defs[i].Kind = "struct"
                     /\ model.Indexes.Defs[i].HasExtensions
                     /\ Len(model.Indexes.Defs[i].Extensions) = MaxExts
                     /\ Range(model.Indexes.Defs[i].Extensions) = {""}
  /\ ret = <<>>

(***************************************************************************)
(* Properties of the error path of AutoMigrateModel.                       *)
(***************************************************************************)

\* Indexes() is called and returns at least one declaration.
HasDeclarations(m) ==
  /\ HasIndexes(m)
  /\ m.Kind = "struct"
  /\ Len(m.Indexes.Defs) > 0

\* The (declaration, column) positions, zero-based, whose selector does
\* not resolve.
FailingColumns(m) ==
  UNION { { <<i, j>> : j \in { n \in 0..(Len(m.Indexes.Defs[i + 1].Columns) - 1) :
                                 fieldNameFromSelectorValue(
                                   m.Indexes.Defs[i + 1].Columns[n + 1].Sel, <<>>).err # "" } } :
            i \in 0..(Len(m.Indexes.Defs) - 1) }

\* p comes before q in (declaration order, column order).
Before(p, q) == p[1] < q[1] \/ (p[1] = q[1] /\ p[2] < q[2])

FirstFailing(m) ==
  CHOOSE p \in FailingColumns(m) : \A q \in FailingColumns(m) \ {p} : Before(p, q)

\* Number of columns in front of position p.
RECURSIVE ColumnsBefore(_, _)
ColumnsBefore(m, p) ==
  IF p[1] = 0 THEN p[2]
  ELSE Len(m.Indexes.Defs[p[1]].Columns) + ColumnsBefore(m, <<p[1] - 1, p[2]>>)

\* C11: when the selector of some column does not resolve, AutoMigrateModel
\* returns the error of the first such column in (declaration, column)
\* order, prefixed with the name of its index and its one-based position;
\* the selectors of the columns after it are not invoked, no fragment is
\* handed on and the migration engine is not called.
C11_FailFast ==
  (pc = "migrated" /\ HasDeclarations(model) /\ FailingColumns(model) # {}) =>
    LET p == FirstFailing(model)
        def == model.Indexes.Defs[p[1] + 1]
        r == fieldNameFromSelectorValue(def.Columns[p[2] + 1].Sel, <<>>)
    IN /\ ret.err = "index " \o Quote(def.Name) \o " column "
                      \o Numeral[p[2] + 1] \o ": " \o r.err
       /\ selCalls = ColumnsBefore(model, p) + r.calls
       /\ ret.log = <<>>
       /\ ret.tags = <<>>
       /\ engine = <<>>

\* The second column of the second declaration did not resolve, after
\* three columns that did and before one that would not have either.
C11_Witness ==
  /\ pc = "migrated"
  /\ HasDeclarations(model)
  /\ Len(model.Indexes.Defs) = 2
  /\ Cardinality(FailingColumns(model)) = 2
  /\ FirstFailing(model) = <<1, 1>>
  /\ ret.err = "index \"idx_b\" column 2: Sel didn't point to a top-level exported field on NotebookFile"
  /\ selCalls = 4
  /\ engine = <<>>

(***************************************************************************)
(* Properties of the projection AutoMigrateModel hands to the engine.      *)
(***************************************************************************)

\* Name, declared type and embedded flag of each field of a list.
Signature(fields) ==
  [k \in DOMAIN fields |->
     [Name |-> fields[k].Name, Type |-> fields[k].Type,
      Anonymous |-> fields[k].Anonymous]]

\* The exported fields of a struct type, in declaration order.
Exported(t) == SelectSeq(t.Fields, LAMBDA sf : sf.PkgPath = "")

\* C12: the projection of a model with at least one index declaration
\* holds exactly the exported fields of the model, in their original
\* order, each with its name, declared type and embedded flag; unexported
\* fields are dropped and no field is added.
C12_ProjectionFields ==
  Projected =>
    Signature(engine[1].value) = Signature(Exported(model.T))

\* A model with an embedded struct and an unexported field between two
\* exported ones was projected.
C12_Witness ==
  /\ Projected
  /\ model.T = Account
  /\ Len(engine[1].value) = Len(model.T.Fields) - 1
  /\ engine[1].value[1].Anonymous
  /\ engine[1].value[2].Name = "Name"
  /\ engine[1].value[3].Name = "Email"

(***************************************************************************)
(* Properties of the serialisation of merged tags.                         *)
(***************************************************************************)

\* The key:"value" entries of a tag, in the order they are written.
RECURSIVE EntriesFrom(_, _)
EntriesFrom(s, p) ==
  IF p > Len(s) THEN <<>>
  ELSE IF ~IsWord(Char(s, p)) THEN EntriesFrom(s, p + 1)
  ELSE
    LET q == WordEnd(s, p)
        r == IndexFrom(s, "\"", q + 2)
    IN IF q + 1 <= Len(s) /\ Char(s, q) = ":" /\ Char(s, q + 1) = "\"" /\ r # 0
       THEN <<[key |-> SubSeq(s, p, q - 1), text |-> SubSeq(s, p, r)]>>
            \o EntriesFrom(s, r + 1)
       ELSE EntriesFrom(s, p + 1)

Increasing(list) ==
  \A a, b \in DOMAIN list : a < b => StrLess(list[a], list[b])

\* The keys of the merged tag are written in increasing byte order.
KeysInOrder ==
  pc \in {"merged", "again"} =>
    Increasing([n \in DOMAIN EntriesFrom(ret, 1) |-> EntriesFrom(ret, 1)[n].key])

\* The key:"value" entries of the merged tag are written in increasing
\* byte order of the whole entry.
EntriesInOrder ==
  pc \in {"merged", "again"} =>
    Increasing([n \in DOMAIN EntriesFrom(ret, 1) |-> EntriesFrom(ret, 1)[n].text])

\* A second synthesis returns the string the first one returned.
SameAgain == [][pc' = "again" => ret' = ret]_vars

\* C13, as stated: two syntheses over the same tag and the same fragments
\* return byte-identical strings, whatever the order in which the maps are
\* iterated, and the keys of the result are in lexicographic order.
C13_AsStated == SameAgain /\ []KeysInOrder

\* C13, amended: two syntheses over the same tag and the same fragments
\* return byte-identical strings, whatever the order in which the maps are
\* iterated, and the key:"value" entries of the result are in
\* lexicographic (byte) order of the whole entry, so that a key that
\* continues another key with a digit is written in front of it.
C13_Deterministic == SameAgain /\ []EntriesInOrder

\* A tag of four keys was synthesized twice, the maps being iterated in
\* two different orders, neither of them the order of the result.
C13_Witness ==
  /\ pc = "again"
  /\ Len(toAdd) = 1
  /\ Len(iter) = 2
  /\ iter[1] = <<"yaml", "json", "gorm", "json5">>
  /\ iter[2] = <<"json", "json5", "yaml", "gorm">>
  /\ ret = "gorm:\"not null;index:idx_a,priority:1\" json5:\"name\" json:\"name\" yaml:\"n\""

(***************************************************************************)
(* Properties of the table the projection is migrated under.               *)
(***************************************************************************)

\* C14: when a model with index declarations declares TableName, on a
\* value receiver or on a pointer receiver, and is passed by value or by
\* pointer, the engine is called once, on the projection, under the
\* declared table name; a model that declares none is migrated under no
\* explicit table.
C14_TableName ==
  Projected =>
    /\ Len(engine) = 1
    /\ model.Tabler # "none" => engine[1].table = <<model.TableName>>
    /\ model.Tabler = "none" => engine[1].table = <<>>

\* models.TestModelTableNamePointerReceiver, whose TableName is declared
\* on the pointer receiver, was passed by value and migrated under its
\* table name.
C14_Witness ==
  /\ Projected
  /\ model = PointerReceiverModel(0)
  /\ engine[1].table = <<"test_model_table_name_pointer_receiver">>
  /\ engine[1].value[2].Tag = "gorm:\"column:name;index:idx_test_model_unique,priority:1,unique\""

(***************************************************************************)
(* Properties of the sort marker.                                          *)
(***************************************************************************)

\* The sort markers among the parts of a column.
SortMarkers(parts) == SelectSeq(parts, LAMBDA m : HasPrefix(m, "sort:"))

\* C16, as stated: the fragment of a column holds a `sort:` marker exactly
\* when Sort is non-empty; the marker is `sort:<Sort>`, followed by
\* ` nulls <Nulls>` exactly when Nulls is non-empty too; when Sort is empty
\* there is no sort marker and no nulls clause, whatever Nulls is.
C16_AsStated ==
  pc = "migrated" =>
    \A k \in DOMAIN ret.log :
      LET e == ret.log[k]
          col == ColOf(e)
      IN IF col.Sort # ""
         THEN SortMarkers(e.parts) =
                <<"sort:" \o col.Sort
                  \o (IF col.Nulls # "" THEN " nulls " \o col.Nulls ELSE "")>>
         ELSE SortMarkers(e.parts) = <<>> /\ ~\E n \in DOMAIN e.parts : HasPrefix(e.parts[n], "nulls")

\* C16, amended: the fragment of a column holds a `sort:` marker exactly
\* when Sort, trimmed of surrounding white space, is non-empty; the marker
\* is `sort:<direction>`, <direction> the trimmed Sort, followed by
\* ` nulls <ordering>`, <ordering> the trimmed Nulls, exactly when that is
\* non-empty too; when the trimmed Sort is empty there is no sort marker
\* and no nulls clause, whatever Nulls is.
C16_SortMarker ==
  pc = "migrated" =>
    \A k \in DOMAIN ret.log :
      LET e == ret.log[k]
          direction == TrimSpace(ColOf(e).Sort)
          ordering == TrimSpace(ColOf(e).Nulls)
      IN IF direction # ""
         THEN SortMarkers(e.parts) =
                <<"sort:" \o direction
                  \o (IF ordering # "" THEN " nulls " \o ordering ELSE "")>>
         ELSE SortMarkers(e.parts) = <<>> /\ ~\E n \in DOMAIN e.parts : HasPrefix(e.parts[n], "nulls")

\* One index was assembled from a column sorted with a nulls ordering, a
\* column with a nulls ordering but no sort, and a column with a padded
\* sort and no nulls ordering.
C16_Witness ==
  /\ Projected
  /\ \E a, b, c \in DOMAIN ret.log :
       /\ ret.log[a].index = ret.log[b].index /\ ret.log[b].index = ret.log[c].index
       /\ SortMarkers(ret.log[a].parts) = <<"sort:desc nulls last">>
       /\ ColOf(ret.log[b]).Nulls = "first" /\ SortMarkers(ret.log[b].parts) = <<>>
       /\ ColOf(ret.log[c]).Sort = " asc" /\ SortMarkers(ret.log[c].parts) = <<"sort:asc">>

(***************************************************************************)
(* Properties of the fragment lists collected per field.                   *)
(***************************************************************************)

\* The (declaration, column) positions, zero-based, of a model.
Positions(m) ==
  UNION { { <<i, j>> : j \in 0..(Len(m.Indexes.Defs[i + 1].Columns) - 1) } :
            i \in 0..(Len(m.Indexes.Defs) - 1) }

\* The positions whose selector resolves to field f.
Occurrences(m, f) ==
  { p \in Positions(m) :
      LET r == fieldNameFromSelectorValue(m.Indexes.Defs[p[1] + 1].Columns[p[2] + 1].Sel, <<>>)
      IN r.err = "" /\ r.name = f }

\* The n-th occurrence of f in (declaration order, column order).
NthOccurrence(m, f, n) ==
  CHOOSE p \in Occurrences(m, f) :
    Cardinality({q \in Occurrences(m, f) : Before(q, p)}) = n - 1

\* fieldToIndexTags[f]: the fragments collected for field f.
FragmentsOf(f) == IF f \in DOMAIN ret.tags THEN ret.tags[f] ELSE <<>>

\* Number of fragments collected for the first n fields of the model.
RECURSIVE FragmentCount(_)
FragmentCount(n) ==
  IF n = 0 THEN 0
  ELSE Len(FragmentsOf(model.T.Fields[n].Name)) + FragmentCount(n - 1)

\* C17: on success every field holds one fragment per (index, position)
\* occurrence that names it, in the order the declarations and their
\* columns were processed, each fragment being the one assembled for that
\* occurrence; nothing is collected for anything that is not a field, and
\* the fragments of all fields are as many as the columns of all
\* declarations.
C17_Accumulation ==
  Projected =>
    /\ \A k \in DOMAIN model.T.Fields :
         LET f == model.T.Fields[k].Name
             frags == FragmentsOf(f)
         IN /\ Len(frags) = Cardinality(Occurrences(model, f))
            /\ \A n \in DOMAIN frags :
                 LET p == NthOccurrence(model, f, n) IN
                 HasPrefix(frags[n], "index:" \o model.Indexes.Defs[p[1] + 1].Name
                                       \o ",priority:" \o Numeral[p[2] + 1])
    /\ DOMAIN ret.tags \subseteq {model.T.Fields[k].Name : k \in DOMAIN model.T.Fields}
    /\ FragmentCount(Len(model.T.Fields)) = Cardinality(Positions(model))

\* One field was named by two columns of one index and by a column of
\* another index, and holds three fragments.
C17_Witness ==
  /\ Projected
  /\ Len(model.Indexes.Defs) = MaxDefs
  /\ \E f \in DOMAIN ret.tags :
       /\ Len(ret.tags[f]) = 3
       /\ HasPrefix(ret.tags[f][1], "index:idx_b,priority:1")
       /\ HasPrefix(ret.tags[f][2], "index:idx_b,priority:3")
       /\ HasPrefix(ret.tags[f][3], "index:idx_u,priority:2")

(***************************************************************************)
(* Properties of the selector invocations of the Selector Resolver.        *)
(***************************************************************************)

\* The selector passes the shape check of the resolver.
ShapeOK(s) == s.Kind = "func" /\ s.NumIn = 1 /\ s.In0Ptr /\ s.NumOut = 1

\* C18: one resolution invokes the selector exactly once when it passes
\* the shape check, and not at all when it fails it; the instance the
\* selector is invoked on is allocated by that resolution, and is none of
\* the instances another resolution used.
C18_CalledOnce ==
  pc \in {"resolved", "again"} =>
    /\ ShapeOK(sel) => (ret.calls = 1 /\ Len(ret.probes) = 1)
    /\ ~ShapeOK(sel) => (ret.calls = 0 /\ ret.probes = <<>>)
    /\ selCalls = Len(probes)
    /\ \A a, b \in DOMAIN probes : a # b => probes[a] # probes[b]
    /\ \A k \in DOMAIN ret.probes : ret.probes[k] = probes[Len(probes)]

\* A selector was resolved for two columns: it was invoked twice in all,
\* the second time on a second instance.
C18_Witness ==
  /\ pc = "again"
  /\ ShapeOK(sel)
  /\ sel.Res = "pointer"
  /\ selCalls = 2
  /\ Len(probes) = 2
  /\ ret.probes = <<probes[2]>>
  /\ probes[1] # probes[2]

(***************************************************************************)
(* Specification of toSnakeCase: one conversion of any short name over a   *)
(* small alphabet, or of one of the names of TestToSnakeCase.              *)
(***************************************************************************)
MaxName == 3

\* Upper-case and lower-case ASCII letters, a digit, the underscore, and
\* an upper-case and a lower-case letter outside ASCII.
SnakeAlphabet == {"A", "B", "a", "b", "1", "_", "É", "é"}

RECURSIVE NamesUpTo(_)
NamesUpTo(n) ==
  IF n = 0 THEN {""}
  ELSE NamesUpTo(n - 1)
       \cup {p \o c : p \in NamesUpTo(n - 1), c \in SnakeAlphabet}

\* The inputs of TestToSnakeCase.
TestNames ==
  { "FileName", "TenantID", "ID", "Name", "ScanVersion", "field1", "Field1",
    "HTTPServer", "UserID", "APIKey", "" }

InitSnake ==
  /\ pc = "ready"
  /\ str \in NamesUpTo(MaxName) \cup TestNames
  /\ model = NilModel
  /\ sel = FieldSelector(NotebookFile, 1)
  /\ orig = ""
  /\ toAdd = <<>>
  /\ ret = <<>>
  /\ engine = <<>>
  /\ selCalls = 0
  /\ iter = <<>>
  /\ probes = <<>>

Convert ==
  /\ pc = "ready"
  /\ ret' = toSnakeCase(str)
  /\ pc' = "converted"
  /\ UNCHANGED <<model, sel, orig, toAdd, engine, selCalls, iter, str, probes>>

NextSnake == Convert

SpecSnake == InitSnake /\ [][NextSnake]_vars

(***************************************************************************)
(* Properties of toSnakeCase.                                              *)
(***************************************************************************)

\* Upper-case and lower-case letters, ASCII or not, and the lower-case
\* form of an upper-case letter.
IsUpperLetter(c) == IsUpper(c) \/ c = "É"

IsLowerLetter(c) == IsLower(c) \/ c = "é"

LowerLetterOf(c) == IF c = "É" THEN "é" ELSE Lower(c)

\* An underscore belongs in front of the i-th character of s: it is upper
\* case, not the first character, and next to a lower-case character.
Boundary(s, i, Up(_), Low(_)) ==
  /\ Up(Char(s, i))
  /\ i > 1
  /\ \/ Low(Char(s, i - 1))
     \/ i + 1 <= Len(s) /\ Low(Char(s, i + 1))

\* Where the i-th character of s lands in the output.
Landing(s, i, Up(_), Low(_)) ==
  i + Cardinality({k \in 1..i : Boundary(s, k, Up, Low)})

\* out is s with every upper-case letter lower-cased, one underscore in
\* front of each boundary, and every other character copied.
SnakeOf(out, s, Up(_), Low(_), ToLower(_)) ==
  /\ Len(out) = Landing(s, Len(s), Up, Low)
  /\ \A i \in 1..Len(s) :
       /\ Char(out, Landing(s, i, Up, Low)) =
            (IF Up(Char(s, i)) THEN ToLower(Char(s, i)) ELSE Char(s, i))
       /\ Boundary(s, i, Up, Low) => Char(out, Landing(s, i, Up, Low) - 1) = "_"

\* C15, as stated: toSnakeCase lower-cases every upper-case letter and
\* puts one underscore in front of an upper-case letter exactly when it is
\* not the first character and the previous or the following character is
\* lower-case; other characters are copied and "" yields "".
C15_AsStated ==
  pc = "converted" => SnakeOf(ret, str, IsUpperLetter, IsLowerLetter, LowerLetterOf)

\* C15, amended: toSnakeCase lower-cases every ASCII upper-case letter
\* (A-Z) and puts one underscore in front of such a letter exactly when it
\* is not the first character and the previous or the following character
\* is an ASCII lower-case letter (a-z); every other character, letters
\* outside ASCII included, is copied and "" yields "".
C15_SnakeCase ==
  pc = "converted" => SnakeOf(ret, str, IsUpper, IsLower, Lower)

\* A run of upper-case letters followed by a word was converted.
C15_Witness ==
  /\ pc = "converted"
  /\ str = "HTTPServer"
  /\ ret = "http_server"

(***************************************************************************)
(* Properties of the checks AutoMigrateModel makes on its argument.        *)
(***************************************************************************)

\* C19: AutoMigrateModel returns "nil model" when the model is absent and
\* "model must be a struct or *struct, got <kind>" when the type it
\* reaches through any number of pointers is not a struct; in both cases
\* neither Indexes() nor a selector is called and the migration engine is
\* not invoked.
C19_ArgumentChecks ==
  (pc = "migrated" /\ (model.IsNil \/ model.Kind # "struct")) =>
    /\ model.IsNil => ret.err = "nil model"
    /\ ~model.IsNil => ret.err = "model must be a struct or *struct, got " \o model.Kind
    /\ ret.indexes = 0
    /\ selCalls = 0
    /\ engine = <<>>

\* A pointer to a pointer to a slice type that declares Indexes() and
\* TableName() was rejected.
C19_Witness ==
  /\ pc = "migrated"
  /\ ~model.IsNil
  /\ model.Kind = "slice"
  /\ model.PtrDepth = 2
  /\ model.Indexes.Present /\ Len(model.Indexes.Defs) > 0
  /\ ret.err = "model must be a struct or *struct, got slice"
  /\ engine = <<>>

(***************************************************************************)
(* Properties of the errors of the Selector Resolver.                      *)
(***************************************************************************)

\* The errors the resolver reports for a selector of the wrong shape, and
\* for a result that is not a non-nil pointer.
InvalidSelectorShape == {ErrNotFunc, ErrShape}

SelectorNotAddressable == {ErrNilInterface, ErrNotPointer}

\* C20: the resolver fails with an InvalidSelectorShape error when the
\* selector is not a function of exactly one pointer argument and exactly
\* one result, and with a SelectorNotAddressable error when the result,
\* taken out of its `any` wrapper, is a nil interface, a value that is no
\* pointer, or a nil pointer; it returns no field name in these cases.
C20_ShapeAndAddressable ==
  pc \in {"resolved", "again"} =>
    /\ ~ShapeOK(sel) => (ret.err \in InvalidSelectorShape /\ ret.name = "")
    /\ sel.Kind # "func" => ret.err = ErrNotFunc
    /\ (ShapeOK(sel) /\ sel.Res # "pointer") =>
         (ret.err \in SelectorNotAddressable /\ ret.name = "")
    /\ (ShapeOK(sel) /\ sel.Res = "nilInterface") => ret.err = ErrNilInterface
    /\ (ShapeOK(sel) /\ sel.Res \in {"value", "nilPointer"}) => ret.err = ErrNotPointer

\* A selector declared to return a pointer returned a nil pointer and was
\* rejected after one invocation.
C20_Witness ==
  /\ pc = "resolved"
  /\ ShapeOK(sel)
  /\ ~sel.OutIface
  /\ sel.Res = "nilPointer"
  /\ ret.err = "Sel must return a *field (pointer)"
  /\ ret.name = ""
  /\ selCalls = 1

(***************************************************************************)
(* Properties of the frame of the merge step.                              *)
(*                                                                         *)
(* What a tag means is what reflect.StructTag.Lookup reads from it: a list *)
(* of key:"value" pairs separated by spaces, the value a quoted string in  *)
(* which a backslash escapes the next character.                           *)
(***************************************************************************)

\* First position at or after p that cannot be part of a key.
RECURSIVE NameEnd(_, _)
NameEnd(s, p) ==
  IF p > Len(s) \/ Char(s, p) \in {" ", "\t", "\n", "", "\f", "\r", ":", "\""} THEN p
  ELSE NameEnd(s, p + 1)

\* Position of the quote that closes a value whose text starts at p, 0
\* when the value is not closed.
\* A quote closes the value when the run of backslashes just before it,
\* counted inside the value, has even length.
BackslashesBefore(s, p, q) ==
  Cardinality({k \in 1..(q - p) : \A j \in 1..k : Char(s, q - j) = "\\"})

QuoteEnd(s, p) ==
  LET qs == {q \in p..Len(s) :
               Char(s, q) = "\"" /\ BackslashesBefore(s, p, q) % 2 = 0}
  IN IF qs = {} THEN 0 ELSE CHOOSE q \in qs : \A r \in qs : q <= r

\* The key:"value" pairs of a tag from position p on, in order.
RECURSIVE TagPairsFrom(_, _)
TagPairsFrom(s, p) ==
  IF p > Len(s) THEN <<>>
  ELSE IF Char(s, p) = " " THEN TagPairsFrom(s, p + 1)
  ELSE
    LET e == NameEnd(s, p) IN
    IF e = p \/ e + 1 > Len(s) THEN <<>>
    ELSE IF Char(s, e) # ":" \/ Char(s, e + 1) # "\"" THEN <<>>
    ELSE IF QuoteEnd(s, e + 2) = 0 THEN <<>>
    ELSE <<[key |-> SubSeq(s, p, e - 1),
            value |-> SubSeq(s, e + 2, QuoteEnd(s, e + 2) - 1)]>>
         \o TagPairsFrom(s, QuoteEnd(s, e + 2) + 1)

TagKeysOf(tag) == {TagPairsFrom(tag, 1)[n].key : n \in DOMAIN TagPairsFrom(tag, 1)}

\* The value of key k in the tag: <<v>> when the key is there, <<>> when
\* it is not.
TagGet(tag, k) ==
  LET ps == TagPairsFrom(tag, 1)
      at == {n \in DOMAIN ps : ps[n].key = k}
  IN IF at = {} THEN <<>>
     ELSE <<ps[CHOOSE n \in at : \A m \in at : n <= m].value>>

\* The fragments of the gorm key of a tag, trimmed.
TrimmedFragments(tag) ==
  IF TagGet(tag, "gorm") \in {<<>>, <<"">>} THEN <<>>
  ELSE [n \in DOMAIN Split(TagGet(tag, "gorm")[1], ";") |->
          TrimSpace(Split(TagGet(tag, "gorm")[1], ";")[n])]

\* The fragments of the original tag that the strip step leaves.
Remaining(tag) ==
  SelectSeq(TrimmedFragments(tag),
            LAMBDA f : ~(HasPrefix(f, "index:") \/ HasPrefix(f, "uniqueIndex:")))

NonEmpty(list) == SelectSeq(list, LAMBDA f : f # "")

\* C21: after the merge every key of the tag other than gorm has the
\* value it had, and no key is added; the gorm fragments that are not
\* stripped come first, in their original order, followed by the new
\* fragments in list order; the gorm key is gone when no fragment is left
\* and none is added.
C21_MergeFrame ==
  pc \in {"merged", "again"} =>
    /\ \A k \in (TagKeysOf(orig) \cup TagKeysOf(ret)) \ {"gorm"} :
         TagGet(ret, k) = TagGet(orig, k)
    /\ NonEmpty(TrimmedFragments(ret)) = NonEmpty(Remaining(orig)) \o toAdd
    /\ (Remaining(orig) = <<>> /\ toAdd = <<>>) => "gorm" \notin TagKeysOf(ret)

(***************************************************************************)
(* Properties of the strip step over the fields of the projection.         *)
(***************************************************************************)

\* The tag of the exported field named f in a list of fields.
TagOfField(fields, f) ==
  fields[CHOOSE k \in DOMAIN fields : fields[k].Name = f].Tag

\* The fragment was written inline with an index name.
InlineIndex(f) == HasPrefix(f, "index:") \/ HasPrefix(f, "uniqueIndex:")

\* C22: when the model has at least one index declaration, the gorm
\* fragments of every exported field of the projection are those of the
\* model's field minus the inline `index:` and `uniqueIndex:` ones,
\* followed by the fragments synthesized for the field; a field that no
\* declaration names loses its inline index fragments and gains nothing.
\* When the model declares nothing, the engine receives the model with
\* its tags as they are.
C22_StripEveryField ==
  /\ Projected =>
       \A k \in DOMAIN Exported(model.T) :
         LET sf == Exported(model.T)[k]
             tag == TagOfField(engine[1].value, sf.Name)
         IN /\ NonEmpty(TrimmedFragments(tag)) =
                 NonEmpty(Remaining(sf.Tag)) \o FragmentsOf(sf.Name)
            /\ Occurrences(model, sf.Name) = {} =>
                 \A n \in DOMAIN TrimmedFragments(tag) :
                   ~InlineIndex(TrimmedFragments(tag)[n])
  /\ (pc = "migrated" /\ NoDeclarations(model)) =>
       (Len(engine) = 1 /\ ~engine[1].projection /\ engine[1].value.T = model.T)

\* A model whose only declaration names one field was projected: two
\* other fields lost their inline index fragments and gained none.
C22_Witness ==
  /\ Projected
  /\ model.T = Account
  /\ DOMAIN ret.tags = {"Email"}
  /\ TagOfField(engine[1].value, "Name") = "gorm:\"not null\" json:\"name\""
  /\ TagOfField(engine[1].value, "Phone") = "gorm:\"size:32\""

====
